---- MODULE Spec2Model ----
(***************************************************************************)
(* PyCelestialObjects / Dobby: conversion of catalogue positions (RA, DEC) *)
(* to horizon coordinates (Alt, Az), the visibility filter, the ranking of *)
(* alignment triples, and the menu loop with set_time_and_place.           *)
(*                                                                         *)
(* Numbers.  The program computes with Python floats.  A float is modelled *)
(* by an integer count of thousandths (Scale), and every arithmetic result *)
(* is rounded to the nearest number with a significand of Precision bits   *)
(* (ties to even), as binary floating point does with 53 bits: numbers     *)
(* below 2^Precision thousandths are exact to the thousandth, larger ones  *)
(* are spaced 2, 4, 8, ... thousandths apart.                              *)
(*                                                                         *)
(* Angles.  An angle in degrees is a count of millidegrees.  An angle in   *)
(* radians is counted in units of pi/180000, so that math.pi is 180000     *)
(* units; the trigonometric functions of the math module are a table of    *)
(* the sine every 5 degrees  with linear interpolation in between.         *)
(***************************************************************************)
EXTENDS Integers, Sequences, FiniteSets

VARIABLES
    pc,         \* position of the run: which function has been applied
    args,       \* the arguments of the function under study
    ret,        \* what that function returned (or the exception it raised)
    all_stars,  \* get_suitable_stars: the list load_bright_stars returned
    suitable,   \* get_suitable_stars: the list it returns
    stars,      \* best_stars: its argument
    printed,    \* best_stars: the lines it printed, as <<(i,j,k), area>>
    config,     \* the module globals YEAR .. SECONDS, LAT, LONG, UT_COR
    choice      \* main: the value print_menu returned

vars == <<pc, args, ret, all_stars, suitable, stars, printed, config, choice>>

-----------------------------------------------------------------------------
(* Floats *)

Scale == 1000

Precision == 17

Abs(x) == IF x < 0 THEN -x ELSE x

\* n / d rounded to the nearest integer (d > 0)
RDiv(n, d) == (2 * n + d) \div (2 * d)

Pow2(n) == 2^n

\* the spacing of the representable numbers around magnitude m: the first of
\* q, 2q, 4q, ... that leaves m fewer than Precision + 1 significant bits
RECURSIVE Ulp(_, _)
Ulp(m, q) == IF m \div q < Pow2(Precision) THEN q ELSE Ulp(m, 2 * q)

\* x rounded to the nearest representable number, ties to the even significand
RoundFloat(x) ==
    LET q  == Ulp(Abs(x), 1)
        lo == (x \div q) * q
        r  == x - lo
    IN  IF -Pow2(Precision) < x /\ x < Pow2(Precision) THEN x
        ELSE IF 2 * r < q THEN lo
        ELSE IF 2 * r > q THEN lo + q
        ELSE IF (lo \div q) % 2 = 0 THEN lo ELSE lo + q

FAdd(a, b) == RoundFloat(a + b)

FSub(a, b) == RoundFloat(a - b)

\* a * b; the larger factor is split so that no intermediate leaves 32 bits
FMul(a, b) ==
    IF Abs(a) >= Abs(b)
    THEN RoundFloat((a \div Scale) * b + RDiv((a % Scale) * b, Scale))
    ELSE RoundFloat((b \div Scale) * a + RDiv((b % Scale) * a, Scale))

\* math.fmod: the remainder has the sign of x, and is exact
math_fmod(x, m) == IF x >= 0 THEN x % m ELSE -((-x) % m)

\* x % m on floats: fmod, and m added to a remainder of the other sign
float_rem(x, m) ==
    LET mod == math_fmod(x, m)
    IN  IF mod # 0 /\ ((m < 0) # (mod < 0)) THEN FAdd(mod, m) ELSE mod

\* a / b for b # 0
FDiv(a, b) ==
    LET n == IF b < 0 THEN -a ELSE a
        d == Abs(b)
    IN  RoundFloat((n \div d) * Scale + RDiv((n % d) * Scale, d))

\* math.sqrt
RECURSIVE SqrtSearch(_, _, _)
SqrtSearch(x, lo, hi) ==
    IF lo >= hi THEN lo
    ELSE LET mid == (lo + hi + 1) \div 2
         IN  IF mid * mid <= x THEN SqrtSearch(x, mid, hi)
             ELSE SqrtSearch(x, lo, mid - 1)

math_sqrt(x) == SqrtSearch(x * Scale, 0, 46340)

-----------------------------------------------------------------------------
(* The math module's trigonometry *)

math_pi == 180 * Scale

\* 1000 * sin of 0, 5, ..., 90 degrees
SinTab ==
    <<0, 87, 174, 259, 342, 423, 500, 574, 643, 707,
      766, 819, 866, 906, 940, 966, 985, 996, 1000>>

SinStep == 5 * Scale

\* the sine of an angle of the first quadrant
SinQ(x) ==
    LET k == x \div SinStep
        f == x % SinStep
    IN  IF f = 0 THEN SinTab[k + 1]
        ELSE SinTab[k + 1] + RDiv((SinTab[k + 2] - SinTab[k + 1]) * f, SinStep)

math_sin(x) ==
    LET y == x % (2 * math_pi)
    IN  IF y <= math_pi \div 2 THEN SinQ(y)
        ELSE IF y <= math_pi THEN SinQ(math_pi - y)
        ELSE IF y <= 3 * (math_pi \div 2) THEN -SinQ(y - math_pi)
        ELSE -SinQ(2 * math_pi - y)

math_cos(x) == math_sin(x + math_pi \div 2)

\* the angle of the first quadrant whose sine is v (0 <= v <= Scale)
AsinQ(v) ==
    LET last == Len(SinTab) - 1
        k == CHOOSE i \in 1..last : /\ SinTab[i] <= v
                                    /\ (i = last \/ v < SinTab[i + 1])
    IN  (k - 1) * SinStep + RDiv(SinStep * (v - SinTab[k]), SinTab[k + 1] - SinTab[k])

math_asin(v) == IF v < 0 THEN -AsinQ(-v) ELSE AsinQ(v)

math_acos(v) == math_pi \div 2 - math_asin(v)

InDomain(v) == -Scale <= v /\ v <= Scale

-----------------------------------------------------------------------------
(* Helper functions *)

HMS_to_decimal_time(hours, minutes, seconds) ==
    FAdd(FAdd(hours, FDiv(minutes, 60 * Scale)), FDiv(seconds, 3600 * Scale))

rad2deg(angle) == FDiv(FMul(180 * Scale, angle), math_pi)

deg2rad(angle) == FDiv(FMul(math_pi, angle), 180 * Scale)

\* math.radians
math_radians(angle) == FDiv(FMul(angle, math_pi), 180 * Scale)

-----------------------------------------------------------------------------
(* Helper functions: geometry.  A vector is a tuple <<x, y, z>>: the      *)
(* program's v[0], v[1], v[2] are v[1], v[2], v[3] here.                  *)

cartesian(star) ==
    LET Alt == math_radians(star.Alt)
        Az  == math_radians(star.Az)
        x   == FMul(math_cos(Alt), math_cos(Az))
        y   == FMul(math_cos(Alt), math_sin(Az))
        z   == math_sin(Alt)
    IN  <<x, y, z>>

vector_product(v1, v2) ==
    LET r0 == FSub(FMul(v1[2], v2[3]), FMul(v1[3], v2[2]))
        r1 == FSub(FMul(v1[3], v2[1]), FMul(v1[1], v2[3]))
        r2 == FSub(FMul(v1[1], v2[2]), FMul(v1[2], v2[1]))
    IN  <<r0, r1, r2>>

vector_norm(v) ==
    LET sum_sq == FAdd(FAdd(FAdd(0, FMul(v[1], v[1])), FMul(v[2], v[2])),
                       FMul(v[3], v[3]))
    IN  math_sqrt(sum_sq)

\* line 185: the third component of edge2 is v1[2]-v2[2], as in the program
area(s1, s2, s3) ==
    LET v1 == cartesian(s1)
        v2 == cartesian(s2)
        v3 == cartesian(s3)
        edge1 == <<FSub(v1[1], v2[1]), FSub(v1[2], v2[2]), FSub(v1[3], v2[3])>>
        edge2 == <<FSub(v1[1], v3[1]), FSub(v1[2], v3[2]), FSub(v1[3], v2[3])>>
    IN  FMul(Scale \div 2, vector_norm(vector_product(edge1, edge2)))

-----------------------------------------------------------------------------
(* Time calculations *)

\* Day counts.  A number of days is a count of 1/DayUnit day, rounded to
\* DayPrecision significant bits: whole and half days are exact, as they are
\* in binary floating point, and the spacing of the representable numbers
\* doubles at 16384 days, where that of the floats doubles too.
DayUnit == 1024

DayPrecision == 24

RECURSIVE DayUlp(_, _)
DayUlp(m, q) == IF m \div q < Pow2(DayPrecision) THEN q ELSE DayUlp(m, 2 * q)

\* x rounded to the nearest representable day count, ties to even
RoundDay(x) ==
    LET q  == DayUlp(Abs(x), 1)
        lo == (x \div q) * q
        r  == x - lo
    IN  IF -Pow2(DayPrecision) < x /\ x < Pow2(DayPrecision) THEN x
        ELSE IF 2 * r < q THEN lo
        ELSE IF 2 * r > q THEN lo + q
        ELSE IF (lo \div q) % 2 = 0 THEN lo ELSE lo + q

\* as days_from_J2000_until_year, counting the leap years with year // 4
days_from_J2000_until_year_late(year) ==
    RoundDay(((year - 1998) * 365 + ((year - 1998) \div 4)) * DayUnit
             - 731 * DayUnit - DayUnit \div 2)

days_from_J2000_until_year(year) ==
    RoundDay(((year - 1998) * 365 + ((year - 1998 + 1) \div 4)) * DayUnit
             - 731 * DayUnit - DayUnit \div 2)

DAYS_TIL_MONTH == <<0, 31, 59, 90, 120, 151, 181, 212, 243, 273, 304, 334>>

days_until_month_begins(year, month) ==
    IF year % 4 = 0 /\ month > 2
    THEN DAYS_TIL_MONTH[month] + 1
    ELSE DAYS_TIL_MONTH[month]

\* HMS_to_decimal_time(hours, minutes, seconds) / 24.0, as a count of
\* 1/DayUnit day
day_fraction(hours, minutes, seconds) ==
    RDiv(HMS_to_decimal_time(hours * Scale, minutes * Scale, seconds * Scale)
         * DayUnit, 24 * Scale)

days_from_J2000(year, month, day, hours, minutes, seconds) ==
    LET days1 == days_from_J2000_until_year(year)
        days2 == days_until_month_begins(year, month) + day
        days3 == day_fraction(hours, minutes, seconds)
    IN  RoundDay(RoundDay(days1 + days2 * DayUnit) + days3)

\* the degrees of sidereal rotation per day, 0.985647, in millionths
LST_RATE == 985647

\* c * x for a factor c given in millionths; the product is split so that no
\* intermediate leaves 32 bits
MulMicro(c, x) ==
    LET q  == x \div Scale
        r  == x % Scale
        ch == c \div Scale
        cl == c % Scale
        A  == q * cl + r * ch
    IN  RoundFloat(q * ch + (A \div Scale)
                   + RDiv((A % Scale) * Scale + r * cl, Scale * Scale))

\* (the parameter days is days_from_J2000 in the program)
local_siderial_time(days, longitude, time) ==
    LET LST == FAdd(FAdd(FAdd(100460, MulMicro(LST_RATE, days)),
                         longitude),
                    FMul(15 * Scale, time))
    IN  float_rem(LST, 360 * Scale)

-----------------------------------------------------------------------------
(* Data handling: hour_angle *)

\* as hour_angle, without the reduction
hour_angle_unreduced(RA, LST) == FSub(LST, RA)

hour_angle(RA, LST) == float_rem(FSub(LST, RA), 360 * Scale)

-----------------------------------------------------------------------------
(* Data handling: RA_DEC_to_ALT_AZ *)

Raise(exc) == [exc |-> exc, alt |-> 0, az |-> 0]

Return(alt, az) == [exc |-> "none", alt |-> alt, az |-> az]

\* the quotient of line 291: its numerator and its denominator
AzNumerator(dec, alt, lat) ==
    FSub(math_sin(dec), FMul(math_sin(alt), math_sin(lat)))

AzDenominator(alt, lat) == FMul(math_cos(alt), math_cos(lat))

\* lines 294-300: the altitude in degrees and the branch on sin(ha)
AzBranch(a, alt, ha) ==
    IF math_sin(ha) < 0
    THEN Return(rad2deg(alt), rad2deg(a))
    ELSE Return(rad2deg(alt), FSub(360 * Scale, rad2deg(a)))

\* math.asin and math.acos raise ValueError for an argument outside [-1, 1].
\* An argument that is exactly 1 or -1 in the model is a float within
\* rounding of it, on either side: the call may raise, or return.
MayRaise(v) == Abs(v) >= Scale

\* lines 291-292.  Where the model's denominator is zero, Python's is not:
\* math.cos is zero for no float, so the float denominator is tiny, and the
\* quotient is 0 if the numerator rounded to zero and far outside [-1, 1]
\* if it did not.  Which of the two happens is below the resolution of the
\* model: both are outcomes.
AzOutcomes(num, den, alt, ha) ==
    IF den = 0
    THEN {Raise("ValueError")}
            \cup (IF num = 0 THEN {AzBranch(math_acos(0), alt, ha)} ELSE {})
    ELSE LET cos_a == FDiv(num, den)
         IN  (IF MayRaise(cos_a) THEN {Raise("ValueError")} ELSE {})
                \cup (IF InDomain(cos_a)
                      THEN {AzBranch(math_acos(cos_a), alt, ha)} ELSE {})

\* the results the call can have
RA_DEC_to_ALT_AZ(raD, decD, haD, latD) ==
    LET dec == deg2rad(decD)
        ha  == deg2rad(haD)
        lat == deg2rad(latD)
        sin_alt == FAdd(FMul(math_sin(dec), math_sin(lat)),
                        FMul(FMul(math_cos(dec), math_cos(lat)), math_cos(ha)))
    IN  (IF MayRaise(sin_alt) THEN {Raise("ValueError")} ELSE {})
            \cup (IF InDomain(sin_alt)
                  THEN LET alt == math_asin(sin_alt)
                       IN  AzOutcomes(AzNumerator(dec, alt, lat),
                                      AzDenominator(alt, lat), alt, ha)
                  ELSE {})

-----------------------------------------------------------------------------
(* The transform applied to one input *)

-----------------------------------------------------------------------------
(* Data handling: load_bright_stars *)

\* a day count, in 1/DayUnit day, as a float in thousandths
DaysToFloat(d) ==
    RoundFloat((d \div DayUnit) * Scale + RDiv((d % DayUnit) * Scale, DayUnit))

\* the catalogue file, as (RA, DEC) in degrees: Procyon (7h:39m:18.1s, to the
\* spacing of the model's sidereal times) and Vega
Catalogue ==
    << [Name |-> "Procyon", RA |-> 114816, DEC |-> 5225],
       [Name |-> "Vega", RA |-> 279235, DEC |-> 38784] >>

\* lines 309-311: the sidereal time of a moment (hours in UT) at a longitude
sidereal_time_at(year, month, day, hours, minutes, seconds, LONG) ==
    local_siderial_time(
        DaysToFloat(days_from_J2000(year, month, day, hours, minutes, seconds)),
        LONG,
        HMS_to_decimal_time(hours * Scale, minutes * Scale, seconds * Scale))

\* lines 315-328, from catalogue line n on: the lists of Star records that
\* can result, or the exception that leaves RA_DEC_to_ALT_AZ
\* one more line: the outcome r of RA_DEC_to_ALT_AZ before the outcome rest
\* of the lines after it
WithStar(name, r, rest) ==
    IF r.exc # "none" THEN [exc |-> r.exc, stars |-> <<>>]
    ELSE IF rest.exc # "none" THEN rest
    ELSE [exc |-> "none",
          stars |-> <<[Name |-> name, Alt |-> r.alt, Az |-> r.az]>> \o rest.stars]

RECURSIVE StarsFrom(_, _, _)
StarsFrom(n, LST, LAT) ==
    IF n > Len(Catalogue) THEN {[exc |-> "none", stars |-> <<>>]}
    ELSE LET outs  == RA_DEC_to_ALT_AZ(Catalogue[n].RA, Catalogue[n].DEC,
                                       hour_angle(Catalogue[n].RA, LST), LAT)
             rests == StarsFrom(n + 1, LST, LAT)
         IN  UNION { {WithStar(Catalogue[n].Name, r, rest) : rest \in rests} :
                     r \in outs }

\* the positions of the catalogue stars at a moment (hours in UT) and place
\* (lst is computed once, before the file is read)
star_positions(year, month, day, hours, minutes, seconds, LAT, LONG) ==
    UNION { StarsFrom(1, LST, LAT) :
            LST \in {sidereal_time_at(year, month, day, hours, minutes, seconds, LONG)} }

\* load_bright_stars reads the module globals
load_bright_stars(cfg) ==
    star_positions(cfg.YEAR, cfg.MONTH, cfg.DAY, cfg.HOURS + cfg.UT_COR,
                   cfg.MINUTES, cfg.SECONDS, cfg.LAT, cfg.LONG)

\* the module globals as set when the program starts (lines 39-52): the
\* clock reads 2024-02-29 22:15:30, the site is Bad Camberg, UT + 1 h
StartConfig ==
    [YEAR |-> 2024, MONTH |-> 2, DAY |-> 29,
     HOURS |-> 22, MINUTES |-> 15, SECONDS |-> 30,
     LAT |-> 50314, LONG |-> 8255, UT_COR |-> -1]

NoRet == [exc |-> "pending", alt |-> 0, az |-> 0]

\* right ascensions, declinations, hour angles and latitudes, in millidegrees
RAs == {0, 88790}

DECs == {d * 30 * Scale : d \in -3..3}

HAs == {h * 30 * Scale : h \in 0..11}

LATs == {l * 30 * Scale : l \in -3..3}

InitXform ==
    /\ pc = "call"
    /\ args \in [raD : RAs, decD : DECs, haD : HAs, latD : LATs]
    /\ ret = NoRet
    /\ all_stars = <<>>
    /\ suitable = <<>>
    /\ stars = <<>>
    /\ printed = <<>>
    /\ config = StartConfig
    /\ choice = 0

CallTransform ==
    /\ pc = "call"
    /\ ret' \in RA_DEC_to_ALT_AZ(args.raD, args.decD, args.haD, args.latD)
    /\ pc' = "done"
    /\ UNCHANGED <<args, all_stars, suitable, stars, printed, config, choice>>

NextXform == CallTransform

SpecXform == InitXform /\ [][NextXform]_vars

\* the zenith/pole singularity: the observer at a pole, or the object at the
\* zenith or the nadir (on the meridian, with DEC = latitude or its opposite)
Singular(a) ==
    \/ a.latD \in {90 * Scale, -90 * Scale}
    \/ a.haD = 0 /\ a.decD = a.latD
    \/ a.haD = 180 * Scale /\ a.decD = -a.latD

\* C3: for valid inputs away from the singularity, the altitude returned is in
\* [-90, 90] and the azimuth in [0, 360)
C3_AltAzInRange ==
    (pc = "done" /\ ~Singular(args) /\ ret.exc = "none") =>
        /\ -90 * Scale <= ret.alt /\ ret.alt <= 90 * Scale
        /\ 0 <= ret.az /\ ret.az < 360 * Scale

\* C4: at the singularity the function returns an azimuth and a valid
\* altitude, and no exception leaves it
C4_SingularReturns ==
    (pc = "done" /\ Singular(args)) =>
        /\ ret.exc = "none"
        /\ -90 * Scale <= ret.alt /\ ret.alt <= 90 * Scale

-----------------------------------------------------------------------------
(* area applied to three stars, in each order of the three *)

AreaStars ==
    { [Name |-> "s", Alt |-> alt * 30 * Scale, Az |-> az * 90 * Scale] :
        alt \in {0, 1, 3}, az \in {0, 1, 2} }

\* the orders of three arguments
Orders == {o \in [1..3 -> 1..3] : {o[1], o[2], o[3]} = {1, 2, 3}}

InitArea ==
    /\ pc = "call"
    /\ args \in {t \in AreaStars \X AreaStars \X AreaStars :
                     Cardinality({t[1], t[2], t[3]}) = 3}
    /\ ret = NoRet
    /\ all_stars = <<>>
    /\ suitable = <<>>
    /\ stars = <<>>
    /\ printed = <<>>
    /\ config = StartConfig
    /\ choice = 0

CallArea ==
    /\ pc = "call"
    /\ ret' = [o \in Orders |-> area(args[o[1]], args[o[2]], args[o[3]])]
    /\ pc' = "done"
    /\ UNCHANGED <<args, all_stars, suitable, stars, printed, config, choice>>

NextArea == CallArea

SpecArea == InitArea /\ [][NextArea]_vars

\* C2: the area of three stars is the same in every order of the three
\* (to within 0.005, five times the resolution of the model)
C2_AreaOrderFree ==
    pc = "done" => \A o1, o2 \in Orders : Abs(ret[o1] - ret[o2]) <= 5

-----------------------------------------------------------------------------
(* hour_angle and local_siderial_time applied to one input *)

TimeRAs == {0, 88790, 100001}

TimeLSTs == {0, 1, 100000, 100001, 359996}

TimeDays == {-1500, 0, 500, RoundFloat(8715250)}

TimeLongitudes == {-180 * Scale, -100461, 8255, 180 * Scale}

TimeHours == {-1 * Scale, 0, 17500, 23999}

InitTime ==
    /\ pc = "call"
    /\ args \in [RA : TimeRAs, LST : TimeLSTs, days : TimeDays,
                 longitude : TimeLongitudes, time : TimeHours]
    /\ ret = 0
    /\ all_stars = <<>>
    /\ suitable = <<>>
    /\ stars = <<>>
    /\ printed = <<>>
    /\ config = StartConfig
    /\ choice = 0

CallHourAngle ==
    /\ pc = "call"
    /\ ret' = hour_angle(args.RA, args.LST)
    /\ pc' = "hour_angle"
    /\ UNCHANGED <<args, all_stars, suitable, stars, printed, config, choice>>

CallLocalSiderialTime ==
    /\ pc = "call"
    /\ ret' = local_siderial_time(args.days, args.longitude, args.time)
    /\ pc' = "local_siderial_time"
    /\ UNCHANGED <<args, all_stars, suitable, stars, printed, config, choice>>

\* hour_angle at LST and at LST + 360, the sum formed by the caller
CallHourAnglePeriod ==
    /\ pc = "call"
    /\ ret' = <<hour_angle(args.RA, args.LST),
                hour_angle(args.RA, FAdd(args.LST, 360 * Scale))>>
    /\ pc' = "period"
    /\ UNCHANGED <<args, all_stars, suitable, stars, printed, config, choice>>

NextTime == CallHourAngle \/ CallLocalSiderialTime \/ CallHourAnglePeriod

SpecTime == InitTime /\ [][NextTime]_vars

\* C10: every value hour_angle and local_siderial_time return is in [0, 360)
C10_ReducedAngle ==
    pc \in {"hour_angle", "local_siderial_time"} => (0 <= ret /\ ret < 360 * Scale)

-----------------------------------------------------------------------------
(* days_from_J2000 applied to one civil moment, and to the same time of   *)
(* day on the next calendar day                                            *)

\* the calendar of the years 2000..2099: leap years are the multiples of 4
DaysInMonth(year, month) ==
    IF month = 2 THEN (IF year % 4 = 0 THEN 29 ELSE 28)
    ELSE IF month \in {4, 6, 9, 11} THEN 30 ELSE 31

DayYears == 2000..2099

DayDates ==
    { d \in [year : DayYears, month : 1..12, day : 1..31] :
        d.day <= DaysInMonth(d.year, d.month) }

\* times of day: midnight, noon, 17:30:00 and 23:59:59
DayTimes ==
    { [hours |-> 0, minutes |-> 0, seconds |-> 0],
      [hours |-> 12, minutes |-> 0, seconds |-> 0],
      [hours |-> 17, minutes |-> 30, seconds |-> 0],
      [hours |-> 23, minutes |-> 59, seconds |-> 59] }

\* the calendar day after a date
NextDate(d) ==
    IF d.day < DaysInMonth(d.year, d.month)
    THEN [d EXCEPT !.day = d.day + 1]
    ELSE IF d.month < 12
    THEN [d EXCEPT !.month = d.month + 1, !.day = 1]
    ELSE [year |-> d.year + 1, month |-> 1, day |-> 1]

InitDays ==
    /\ pc = "call"
    /\ args \in [date : DayDates, time : DayTimes]
    /\ ret = 0
    /\ all_stars = <<>>
    /\ suitable = <<>>
    /\ stars = <<>>
    /\ printed = <<>>
    /\ config = StartConfig
    /\ choice = 0

DaysOf(d, t) ==
    days_from_J2000(d.year, d.month, d.day, t.hours, t.minutes, t.seconds)

CallDaysFromJ2000 ==
    /\ pc = "call"
    /\ ret' = DaysOf(args.date, args.time)
    /\ pc' = "days"
    /\ UNCHANGED <<args, all_stars, suitable, stars, printed, config, choice>>

CallDaysNextDay ==
    /\ pc = "call"
    /\ NextDate(args.date).year \in DayYears
    /\ ret' = <<DaysOf(args.date, args.time), DaysOf(NextDate(args.date), args.time)>>
    /\ pc' = "nextday"
    /\ UNCHANGED <<args, all_stars, suitable, stars, printed, config, choice>>

NextDays == CallDaysFromJ2000 \/ CallDaysNextDay

SpecDays == InitDays /\ [][NextDays]_vars

\* the whole days from 2000-01-01 to a date, counted year by year and month
\* by month
RECURSIVE DaysBeforeYear(_)
DaysBeforeYear(year) ==
    IF year = 2000 THEN 0
    ELSE DaysBeforeYear(year - 1) + (IF (year - 1) % 4 = 0 THEN 366 ELSE 365)

RECURSIVE DaysBeforeMonth(_, _)
DaysBeforeMonth(year, month) ==
    IF month = 1 THEN 0
    ELSE DaysBeforeMonth(year, month - 1) + DaysInMonth(year, month - 1)

\* the days from 2000-01-01 12:00 to a moment, in 1/DayUnit day, the time of
\* day to the nearest unit
TrueDays(d, t) ==
    (DaysBeforeYear(d.year) + DaysBeforeMonth(d.year, d.month) + d.day - 1) * DayUnit
    - DayUnit \div 2
    + RDiv((t.hours * 3600 + t.minutes * 60 + t.seconds) * DayUnit, 86400)

\* C12 as stated: the value is the true number of days, 0 at 2000-01-01
\* 12:00:00, and consecutive days at the same time of day differ by exactly 1
C12_DaysExact ==
    /\ pc = "days" => ret = TrueDays(args.date, args.time)
    /\ pc = "nextday" => ret[2] - ret[1] = DayUnit

\* C12, amended: the value is the true number of days rounded to a float
\* (within half a spacing of the floats at the value, and exact, 0 included,
\* where the true number is a float); consecutive days at the same time of
\* day differ by 1 to within one spacing, and by exactly 1 at midnight and
\* at noon
C12_DaysRounded ==
    /\ pc = "days" =>
        LET true == TrueDays(args.date, args.time)
        IN  /\ 2 * Abs(ret - true) <= DayUlp(Abs(true), 1)
            /\ RoundDay(true) = true => ret = true
    /\ pc = "nextday" =>
        /\ Abs(ret[2] - ret[1] - DayUnit) <= DayUlp(Abs(ret[2]), 1)
        /\ args.time.minutes = 0 => ret[2] - ret[1] = DayUnit

\* the step from 2044-11-08 to 2044-11-09, across 16384 days, at a time of
\* day that is no binary fraction of the day: the two values differ, not by 1
C12_Witness ==
    /\ pc = "nextday"
    /\ args.date.year \in 2023..2073
    /\ args.time.minutes # 0
    /\ ret[2] - ret[1] # DayUnit

PeriodTolerance == 2 * Ulp(720 * Scale, 1)

-----------------------------------------------------------------------------
(* User interaction: what the user types *)

\* a line typed where a number is read: the number, or text that is none
Number(v) == [ok |-> TRUE, val |-> v]

NotANumber == [ok |-> FALSE, val |-> 0]

\* a line typed where yyyy-mm-dd or hh:mm:ss is read: its parts after split
Parts3(a, b, c) == [parts |-> 3, p1 |-> a, p2 |-> b, p3 |-> c]

Parts2(a, b) == [parts |-> 2, p1 |-> a, p2 |-> b, p3 |-> NotANumber]

MenuInputs == {NotANumber} \cup {Number(v) : v \in 0..6}

ChangeInputs == {"n", "NO", "y"}

LatitudeInputs == {Number(10500), Number(95 * Scale), NotANumber}

LongitudeInputs == {Number(20250), Number(200 * Scale), NotANumber}

DateInputs ==
    { Parts3(Number(2030), Number(6), Number(15)),
      Parts3(Number(2022), Number(6), Number(15)),
      Parts3(Number(2031), NotANumber, Number(1)),
      Parts2(Number(2030), Number(6)) }

TimeZoneInputs == {Number(1), Number(24), NotANumber}

DstInputs == {"y", "No", "maybe"}

TimeInputs ==
    { Parts3(Number(22), Number(0), Number(0)),
      Parts3(Number(24), Number(0), Number(0)),
      Parts3(Number(23), NotANumber, Number(0)) }

\* str.lower on the answers above
str_lower(text) ==
    IF text = "NO" THEN "no" ELSE IF text = "No" THEN "no" ELSE text

-----------------------------------------------------------------------------
(* User interaction: print_menu *)

\* the entries of MENUS["MAIN"]
MainEntries == 5

\* as MenuAccepts, without the upper end of the range
MenuAccepts_no_upper(inp) == inp.ok /\ 1 <= inp.val

\* lines 398-402: int(input()) did not raise and the choice is in range
MenuAccepts(inp) == inp.ok /\ 1 <= inp.val /\ inp.val <= MainEntries

-----------------------------------------------------------------------------
(* User interaction: set_time_and_place *)

\* lines 55-64
DEFAULT(cfg) ==
    [Year |-> cfg.YEAR, Month |-> cfg.MONTH, Day |-> cfg.DAY,
     Hours |-> cfg.HOURS, Minutes |-> cfg.MINUTES, Seconds |-> cfg.SECONDS,
     Latitude |-> cfg.LAT, Longitude |-> cfg.LONG]

\* the local variables of set_time_and_place.  fresh holds the names of
\* those assigned in the current pass of the loop, rejected tells that a
\* pass of this call was given up
NoLocals ==
    [change |-> "", latitude |-> 0, longitude |-> 0, yi |-> 0, mi |-> 0, di |-> 0,
     time_zone |-> 0, ut_cor |-> 0, h |-> 0, m |-> 0, s |-> 0,
     fresh |-> {}, rejected |-> FALSE]

Assign(loc, name, v) == [loc EXCEPT ![name] = v, !.fresh = @ \cup {name}]

\* continue, or the except clause: the loop starts its next pass
NextPass(loc) == [loc EXCEPT !.fresh = {}, !.rejected = TRUE]

\* as FirstPrompt, a restart that keeps the position entered
FirstPrompt_date == "date"

\* the first statement of the loop body, line 428
FirstPrompt == "latitude"

\* line 430
PositionRejected(latitude, longitude) ==
    (~(-90 * Scale <= latitude /\ latitude <= 90 * Scale))
        /\ (-180 * Scale <= longitude /\ longitude <= 180 * Scale)

\* lines 434-437 and 455-458: the three integers of a date or a time, assigned
\* one after the other until one is no integer
AssignThree(loc, inp, n1, n2, n3) ==
    IF inp.parts # 3 \/ ~inp.p1.ok THEN loc
    ELSE IF ~inp.p2.ok THEN Assign(loc, n1, inp.p1.val)
    ELSE IF ~inp.p3.ok THEN Assign(Assign(loc, n1, inp.p1.val), n2, inp.p2.val)
    ELSE Assign(Assign(Assign(loc, n1, inp.p1.val), n2, inp.p2.val), n3, inp.p3.val)

ThreeIntegers(inp) == inp.parts = 3 /\ inp.p1.ok /\ inp.p2.ok /\ inp.p3.ok

\* line 438
DateAccepted(yi, mi, di) ==
    (2023 <= yi /\ yi <= 2073) /\ (1 <= mi /\ mi <= 12) /\ (1 <= di /\ di <= 31)

\* line 459
TimeAccepted(h, m, s) ==
    (0 <= h /\ h <= 23) /\ (0 <= m /\ m <= 59) /\ (0 <= s /\ s <= 59)

\* line 469
TimePlace(loc) ==
    [Year |-> loc.yi, Month |-> loc.mi, Day |-> loc.di,
     Hours |-> loc.h + loc.ut_cor, Minutes |-> loc.m, Seconds |-> loc.s,
     Latitude |-> loc.latitude, Longitude |-> loc.longitude]

-----------------------------------------------------------------------------
(* sorted(seq, key = Key, reverse = True): Python's sort is stable, also   *)
(* with reverse = True: elements with equal keys keep their order.         *)

\* key is the key function, given as a TLA+ function on the elements.
\* Insert: x put behind the last element of the descending list whose key
\* is >= its own; From: the elements of seq inserted one by one, in order
sorted_reverse(seq, key) ==
    LET RECURSIVE Insert(_, _)
        Insert(done, x) ==
            IF done = <<>> THEN <<x>>
            ELSE IF key[Head(done)] >= key[x]
                 THEN <<Head(done)>> \o Insert(Tail(done), x)
                 ELSE <<x>> \o done
        RECURSIVE From(_, _)
        From(n, acc) ==
            IF n > Len(seq) THEN acc ELSE From(n + 1, Insert(acc, seq[n]))
    IN  From(1, <<>>)

\* sorted(seq, key = Key)[::-1]: ascending, then reversed, which reverses ties
sorted_then_reversed(seq, key) ==
    LET RECURSIVE Insert(_, _)
        Insert(done, x) ==
            IF done = <<>> THEN <<x>>
            ELSE IF key[Head(done)] > key[x]
                 THEN <<Head(done)>> \o Insert(Tail(done), x)
                 ELSE <<x>> \o done
        RECURSIVE From(_, _)
        From(n, acc) ==
            IF n > Len(seq) THEN acc ELSE From(n + 1, Insert(acc, seq[n]))
    IN  From(1, <<>>)

\* the elements of a sequence
Range(seq) == {seq[p] : p \in 1..Len(seq)}

-----------------------------------------------------------------------------
(* The stars of the runs *)

\* stars as load_bright_stars positions them: name, altitude, azimuth
StarPool ==
    { [Name |-> "Vega",    Alt |-> 60000, Az |-> 0],
      [Name |-> "Capella", Alt |-> 20000, Az |-> 90000],
      [Name |-> "Altair",  Alt |-> 20000, Az |-> 240000],
      [Name |-> "Rigel",   Alt |-> 19999, Az |-> 180000] }

\* area over the stars of the runs, computed once
AreaOf == [s1 \in StarPool, s2 \in StarPool, s3 \in StarPool |-> area(s1, s2, s3)]

-----------------------------------------------------------------------------
(* best_stars *)

NUMBER == 15

\* itertools.combinations(range(n), 3) from (i, j, k) on, in its order
RECURSIVE CombinationsFrom(_, _, _, _)
CombinationsFrom(i, j, k, n) ==
    <<<<i, j, k>>>> \o
        (IF k + 1 < n THEN CombinationsFrom(i, j, k + 1, n)
         ELSE IF j + 2 < n THEN CombinationsFrom(i, j + 1, j + 2, n)
         ELSE IF i + 3 < n THEN CombinationsFrom(i + 1, i + 2, i + 3, n)
         ELSE <<>>)

\* as combinations3, with the triple (0, 0, 0) that
\* combinations_with_replacement would put first
combinations3_replacement(n) ==
    IF n < 1 THEN <<>>
    ELSE <<<<0, 0, 0>>>> \o (IF n < 3 THEN <<>> ELSE CombinationsFrom(0, 1, 2, n))

combinations3(n) == IF n < 3 THEN <<>> ELSE CombinationsFrom(0, 1, 2, n)

\* lines 338-341: triples.items(), in insertion order; stars[i] is st[i + 1]
TriplesItems(st) ==
    LET keys == combinations3(Len(st))
    IN  [p \in 1..Len(keys) |->
            [key  |-> keys[p],
             area |-> AreaOf[st[keys[p][1] + 1], st[keys[p][2] + 1],
                             st[keys[p][3] + 1]]]]

\* as TriplesSorted, without the sort
TriplesSorted_unsorted(st) == TriplesItems(st)

\* as TriplesSorted, sorting with sorted(...)[::-1]
TriplesSorted_ties_reversed(st) ==
    sorted_then_reversed(TriplesItems(st), [tr \in Range(TriplesItems(st)) |-> tr.area])

\* line 343
TriplesSorted(st) == sorted_reverse(TriplesItems(st), [tr \in Range(TriplesItems(st)) |-> tr.area])

\* as PrintLoop, leaving the loop one line early (index >= NUMBER)
RECURSIVE PrintLoop_early(_, _, _)
PrintLoop_early(triples_sorted, pos, index) ==
    IF pos > Len(triples_sorted) THEN <<>>
    ELSE <<triples_sorted[pos]>> \o
            (IF index + 1 >= NUMBER THEN <<>>
             ELSE PrintLoop_early(triples_sorted, pos + 1, index + 1))

\* lines 349-358: one line per triple, until index exceeds NUMBER
RECURSIVE PrintLoop(_, _, _)
PrintLoop(triples_sorted, pos, index) ==
    IF pos > Len(triples_sorted) THEN <<>>
    ELSE <<triples_sorted[pos]>> \o
            (IF index + 1 > NUMBER THEN <<>>
             ELSE PrintLoop(triples_sorted, pos + 1, index + 1))

\* the lines best_stars(st) prints
best_stars(st) == PrintLoop(TriplesSorted(st), 1, 1)

-----------------------------------------------------------------------------
(* get_suitable_stars, lines 480-486 *)

LOW_ANGLE == 20 * Scale

\* as IsSuitable, with > for >=
IsSuitable_strict(star) == star.Alt > LOW_ANGLE

IsSuitable(star) == star.Alt >= LOW_ANGLE

\* as get_suitable_stars, sorting with sorted(...)[::-1]
get_suitable_stars_reversed(loaded) ==
    LET suitable_ == SelectSeq(loaded, IsSuitable)
    IN  sorted_then_reversed(suitable_, [s \in Range(suitable_) |-> s.Alt])

get_suitable_stars(loaded) ==
    LET suitable_ == SelectSeq(loaded, IsSuitable)
    IN  sorted_reverse(suitable_, [s \in Range(suitable_) |-> s.Alt])

\* as all_stars_after_filter, had line 484 sorted the loaded list in place
\* (all_stars.sort) before filtering
all_stars_after_filter_in_place(loaded) ==
    sorted_reverse(loaded, [s \in Range(loaded) |-> s.Alt])

\* lines 478-484: the list all_stars after the loop and the sort.  The loop
\* reads it and appends to the new list suitable; sorted builds a new list
all_stars_after_filter(loaded) == loaded

-----------------------------------------------------------------------------
(* The filter and the ranking applied to a list of stars *)

MaxStars == 6

StarLists == UNION { [1..n -> StarPool] : n \in 0..MaxStars }

Init ==
    /\ pc = "loaded"
    /\ all_stars \in StarLists
    /\ suitable = <<>>
    /\ stars = <<>>
    /\ printed = <<>>
    /\ config = StartConfig
    /\ choice = 0
    /\ args = <<>>
    /\ ret = NoRet

\* main, line 540: the catalogue loads as all_stars
GetSuitableStars ==
    /\ pc = "loaded"
    /\ suitable' = get_suitable_stars(all_stars)
    /\ all_stars' = all_stars_after_filter(all_stars)
    /\ pc' = "filtered"
    /\ UNCHANGED <<args, ret, stars, printed, config, choice>>

\* get_suitable_stars again, on a catalogue that loads as the list it returned
FilterAgain ==
    /\ pc = "filtered"
    /\ all_stars' = suitable
    /\ suitable' = get_suitable_stars(suitable)
    /\ pc' = "refiltered"
    /\ UNCHANGED <<args, ret, stars, printed, config, choice>>

\* main, line 542
BestStars ==
    /\ pc = "filtered"
    /\ stars' = suitable
    /\ printed' = best_stars(suitable)
    /\ pc' = "ranked"
    /\ UNCHANGED <<args, ret, all_stars, suitable, config, choice>>

\* best_stars on the list as loaded, in catalogue order
BestStarsOfAll ==
    /\ pc = "loaded"
    /\ stars' = all_stars
    /\ printed' = best_stars(all_stars)
    /\ pc' = "ranked"
    /\ UNCHANGED <<args, ret, all_stars, suitable, config, choice>>

Next == GetSuitableStars \/ FilterAgain \/ BestStars \/ BestStarsOfAll

Spec == Init /\ [][Next]_vars

-----------------------------------------------------------------------------
(* The main program: the menu loop of main, with set_time_and_place's      *)
(* prompts.  pc is "menu" in print_menu, "align", "settings", "exit" or    *)
(* "else" in the branch of main taken, the name of a prompt inside         *)
(* set_time_and_place, "exited" after sys.exit and "crashed" when an       *)
(* exception has left main.  args holds set_time_and_place's locals, ret   *)
(* what it returned last, with the locals at the return.                   *)

\* the program started on 2025-07-26 at 11:48:45, when Procyon crosses the
\* meridian of the site
TransitConfig ==
    [YEAR |-> 2025, MONTH |-> 7, DAY |-> 26,
     HOURS |-> 11, MINUTES |-> 48, SECONDS |-> 45,
     LAT |-> 50314, LONG |-> 8255, UT_COR |-> -1]

NothingReturned(cfg) == [kind |-> "none", ctx |-> DEFAULT(cfg), locals |-> NoLocals]

InitMain ==
    /\ pc = "menu"
    /\ config \in {StartConfig, TransitConfig}
    /\ choice = 0
    /\ args = NoLocals
    /\ ret = NothingReturned(config)
    /\ all_stars = <<>>
    /\ suitable = <<>>
    /\ stars = <<>>
    /\ printed = <<>>

\* lines 538-553: the branch of main for a choice; choices 2 and 3 print a
\* message and the loop goes on
Branch(c) ==
    IF c = 1 THEN "align"
    ELSE IF c = 2 \/ c = 3 THEN "menu"
    ELSE IF c = 4 THEN "settings"
    ELSE IF c = 5 THEN "exit"
    ELSE "else"

\* print_menu reads a line; main takes the branch of the choice it returns
PrintMenu ==
    /\ pc = "menu"
    /\ \E inp \in MenuInputs :
        IF MenuAccepts(inp)
        THEN choice' = inp.val /\ pc' = Branch(inp.val)
        ELSE UNCHANGED <<choice, pc>>
    /\ UNCHANGED <<args, ret, all_stars, suitable, stars, printed, config>>

\* lines 540-542: get_suitable_stars (which loads the catalogue),
\* print_star_list, best_stars; an exception out of the load leaves main
AlignMount ==
    /\ pc = "align"
    /\ \E o \in load_bright_stars(config) :
        IF o.exc = "none"
        THEN /\ all_stars' = o.stars
             /\ suitable' = get_suitable_stars(o.stars)
             /\ stars' = get_suitable_stars(o.stars)
             /\ printed' = best_stars(get_suitable_stars(o.stars))
             /\ pc' = "menu"
        ELSE /\ pc' = "crashed"
             /\ UNCHANGED <<all_stars, suitable, stars, printed>>
    /\ UNCHANGED <<args, ret, config, choice>>

\* lines 423-425: the question whether to change the default
AnswerChange ==
    /\ pc = "settings"
    /\ \E change \in ChangeInputs :
        IF str_lower(change) \in {"n", "no"}
        THEN /\ ret' = [kind |-> "DEFAULT", ctx |-> DEFAULT(config),
                        locals |-> [NoLocals EXCEPT !.change = change]]
             /\ args' = NoLocals
             /\ pc' = "menu"
        ELSE /\ args' = [NoLocals EXCEPT !.change = change]
             /\ pc' = FirstPrompt
             /\ UNCHANGED ret
    /\ UNCHANGED <<all_stars, suitable, stars, printed, config, choice>>

\* line 428
EnterLatitude ==
    /\ pc = "latitude"
    /\ \E inp \in LatitudeInputs :
        IF inp.ok
        THEN args' = Assign(args, "latitude", inp.val) /\ pc' = "longitude"
        ELSE args' = NextPass(args) /\ pc' = FirstPrompt
    /\ UNCHANGED <<ret, all_stars, suitable, stars, printed, config, choice>>

\* lines 429-432
EnterLongitude ==
    /\ pc = "longitude"
    /\ \E inp \in LongitudeInputs :
        IF inp.ok /\ ~PositionRejected(args.latitude, inp.val)
        THEN args' = Assign(args, "longitude", inp.val) /\ pc' = "date"
        ELSE /\ args' = NextPass(IF inp.ok THEN Assign(args, "longitude", inp.val)
                                 ELSE args)
             /\ pc' = FirstPrompt
    /\ UNCHANGED <<ret, all_stars, suitable, stars, printed, config, choice>>

\* lines 434-440
EnterDate ==
    /\ pc = "date"
    /\ \E inp \in DateInputs :
        LET loc == AssignThree(args, inp, "yi", "mi", "di")
        IN  IF ThreeIntegers(inp) /\ DateAccepted(loc.yi, loc.mi, loc.di)
            THEN args' = loc /\ pc' = "time_zone"
            ELSE args' = NextPass(loc) /\ pc' = FirstPrompt
    /\ UNCHANGED <<ret, all_stars, suitable, stars, printed, config, choice>>

\* lines 442-445
EnterTimeZone ==
    /\ pc = "time_zone"
    /\ \E inp \in TimeZoneInputs :
        IF inp.ok /\ 0 <= inp.val /\ inp.val <= 23
        THEN args' = Assign(args, "time_zone", inp.val) /\ pc' = "dst"
        ELSE /\ args' = NextPass(IF inp.ok THEN Assign(args, "time_zone", inp.val)
                                 ELSE args)
             /\ pc' = FirstPrompt
    /\ UNCHANGED <<ret, all_stars, suitable, stars, printed, config, choice>>

\* lines 447-454
EnterDst ==
    /\ pc = "dst"
    /\ \E dst \in DstInputs :
        IF str_lower(dst) \in {"y", "yes"}
        THEN args' = Assign(args, "ut_cor", -(args.time_zone + 1)) /\ pc' = "time"
        ELSE IF str_lower(dst) \in {"n", "no"}
        THEN args' = Assign(args, "ut_cor", -args.time_zone) /\ pc' = "time"
        ELSE args' = NextPass(args) /\ pc' = FirstPrompt
    /\ UNCHANGED <<ret, all_stars, suitable, stars, printed, config, choice>>

\* lines 455-469: the time, and on success the return; main drops the value
\* returned (line 548)
EnterTime ==
    /\ pc = "time"
    /\ \E inp \in TimeInputs :
        LET loc == AssignThree(args, inp, "h", "m", "s")
        IN  IF ThreeIntegers(inp) /\ TimeAccepted(loc.h, loc.m, loc.s)
            THEN /\ ret' = [kind |-> "TimePlace", ctx |-> TimePlace(loc),
                            locals |-> loc]
                 /\ args' = NoLocals
                 /\ pc' = "menu"
            ELSE /\ args' = NextPass(loc)
                 /\ pc' = FirstPrompt
                 /\ UNCHANGED ret
    /\ UNCHANGED <<all_stars, suitable, stars, printed, config, choice>>

\* lines 549-553: sys.exit(0), in the branch of choice 5 and in the else branch
Exit ==
    /\ pc \in {"exit", "else"}
    /\ pc' = "exited"
    /\ UNCHANGED <<args, ret, all_stars, suitable, stars, printed, config, choice>>

NextMain ==
    \/ PrintMenu
    \/ AlignMount
    \/ AnswerChange
    \/ EnterLatitude
    \/ EnterLongitude
    \/ EnterDate
    \/ EnterTimeZone
    \/ EnterDst
    \/ EnterTime
    \/ Exit

SpecMain == InitMain /\ [][NextMain]_vars

-----------------------------------------------------------------------------
(* Properties of the filter and of the ranking *)

\* how often x occurs in seq
Count(seq, x) == Cardinality({p \in 1..Len(seq) : seq[p] = x})

\* C(n, 3)
Choose3(n) == (n * (n - 1) * (n - 2)) \div 6

Min(a, b) == IF a < b THEN a ELSE b

\* the positions (i, j, k), i < j < k, of the stars of the list st
IndexTriples(st) ==
    {t \in (1..Len(st)) \X (1..Len(st)) \X (1..Len(st)) : t[1] < t[2] /\ t[2] < t[3]}

\* C1: the triples best_stars prints are in order of non-increasing area, and
\* the first one has an area >= the area of every 3-combination of the list
C1_RankedByArea ==
    pc = "ranked" =>
        /\ \A p \in 1..(Len(printed) - 1) : printed[p].area >= printed[p + 1].area
        /\ \A t \in IndexTriples(stars) :
              /\ printed # <<>>
              /\ printed[1].area >= AreaOf[stars[t[1]], stars[t[2]], stars[t[3]]]

\* C1 witness: a ranking of triples of different areas, which the enumeration
\* did not produce in descending order
C1_Witness ==
    /\ pc = "ranked"
    /\ Len(printed) >= 3
    /\ printed[1].area > printed[Len(printed)].area
    /\ \E p \in 1..(Len(TriplesItems(stars)) - 1) :
          TriplesItems(stars)[p].area < TriplesItems(stars)[p + 1].area

\* C5: get_suitable_stars returns the stars of the input with Alt >= LOW_ANGLE,
\* each as often as it occurs in the input, and nothing else
C5_FilterExact ==
    pc \in {"filtered", "refiltered"} =>
        /\ \A s \in StarPool :
              Count(suitable, s) = IF s.Alt >= LOW_ANGLE THEN Count(all_stars, s) ELSE 0
        /\ \A p \in 1..Len(suitable) : suitable[p] \in StarPool
        /\ (all_stars = <<>> => suitable = <<>>)

\* C5 witness: a star exactly at the threshold is kept, one below it is
\* dropped, and a star that occurs twice is kept twice
C5_Witness ==
    /\ pc = "filtered"
    /\ \E p \in 1..Len(suitable) : suitable[p].Alt = LOW_ANGLE
    /\ \E p \in 1..Len(all_stars) : all_stars[p].Alt < LOW_ANGLE
    /\ \E s \in StarPool : Count(suitable, s) = 2

\* the stars of seq with altitude a, in their order
WithAlt(seq, a) == SelectSeq(seq, LAMBDA s : s.Alt = a)

\* C6: the list get_suitable_stars returns is sorted by altitude descending,
\* and stars of equal altitude are in the order they have in the input
C6_SortedStable ==
    pc \in {"filtered", "refiltered"} =>
        /\ \A p \in 1..(Len(suitable) - 1) : suitable[p].Alt >= suitable[p + 1].Alt
        /\ \A p \in 1..Len(suitable) :
              WithAlt(suitable, suitable[p].Alt) = WithAlt(all_stars, suitable[p].Alt)

\* C6 witness: an input that is not sorted, with two different stars of the
\* same altitude that are both kept
C6_Witness ==
    /\ pc = "filtered"
    /\ \E p \in 1..(Len(all_stars) - 1) : all_stars[p].Alt < all_stars[p + 1].Alt
    /\ \E p, q \in 1..Len(suitable) :
          /\ p < q
          /\ suitable[p].Alt = suitable[q].Alt
          /\ suitable[p] # suitable[q]

\* C7: get_suitable_stars applied to a list it returned returns that list
C7_Idempotent == pc = "refiltered" => suitable = all_stars

\* C7 witness: the second pass had a list with a tie of different stars
C7_Witness ==
    /\ pc = "refiltered"
    /\ \E p, q \in 1..Len(all_stars) :
          /\ p < q
          /\ all_stars[p].Alt = all_stars[q].Alt
          /\ all_stars[p] # all_stars[q]

\* C8: best_stars prints min(NUMBER, C(n, 3)) triples, the first ones of the
\* ranking of all 3-combinations by descending area
C8_TopNumber ==
    pc = "ranked" =>
        LET m == Min(NUMBER, Choose3(Len(stars)))
            shown == {printed[q].key : q \in 1..Len(printed)}
        IN  /\ Len(printed) = m
            /\ Cardinality(shown) = m
            /\ printed = SubSeq(TriplesSorted(stars), 1, m)
            /\ \A t \in IndexTriples(stars) :
                  \/ <<t[1] - 1, t[2] - 1, t[3] - 1>> \in shown
                  \/ printed[m].area >= AreaOf[stars[t[1]], stars[t[2]], stars[t[3]]]

\* C8 witness: more than NUMBER combinations, NUMBER of them printed
C8_Witness ==
    /\ pc = "ranked"
    /\ Choose3(Len(stars)) > NUMBER
    /\ Len(printed) = NUMBER

\* C9: with fewer than 3 stars best_stars prints no triple
C9_FewStarsNoTriple == (pc = "ranked" /\ Len(stars) < 3) => printed = <<>>

\* C9 witness: best_stars has returned for a list of two stars
C9_Witness == pc = "ranked" /\ Len(stars) = 2 /\ printed = <<>>

-----------------------------------------------------------------------------
(* Properties of the main program *)

\* the positions load_bright_stars would compute from an observer context ctx
\* (Hours of a TimePlace is UT corrected already)
positions_of_context(ctx) ==
    {o.stars : o \in {q \in star_positions(ctx.Year, ctx.Month, ctx.Day, ctx.Hours,
                                            ctx.Minutes, ctx.Seconds,
                                            ctx.Latitude, ctx.Longitude) :
                          q.exc = "none"}}

\* C13: when set_time_and_place has returned a new context, an Align mount
\* that follows computes the star positions from the date, time, latitude and
\* longitude of that context
C13_AlignUsesNewContext ==
    (pc = "menu" /\ choice = 1 /\ ret.kind = "TimePlace") =>
        all_stars \in positions_of_context(ret.ctx)

\* C14: a context returned by set_time_and_place has its latitude in
\* [-90, 90] and its longitude in [-180, 180]
C14_PositionInRange ==
    ret.kind = "TimePlace" =>
        /\ -90 * Scale <= ret.ctx.Latitude /\ ret.ctx.Latitude <= 90 * Scale
        /\ -180 * Scale <= ret.ctx.Longitude /\ ret.ctx.Longitude <= 180 * Scale

-----------------------------------------------------------------------------
(* Further properties of the filter and of the ranking *)

\* (i, j, k) before (i2, j2, k2) in lexicographic order
LexLess(a, b) ==
    \/ a[1] < b[1]
    \/ a[1] = b[1] /\ a[2] < b[2]
    \/ a[1] = b[1] /\ a[2] = b[2] /\ a[3] < b[3]

\* the place a stable descending sort gives the q-th item of the enumeration:
\* behind the items of larger area and the earlier items of equal area
StableRank(items, q) ==
    1 + Cardinality({r \in 1..Len(items) :
                        \/ items[r].area > items[q].area
                        \/ items[r].area = items[q].area /\ r < q})

\* C15: triples of exactly equal area are ranked in the order of their
\* enumeration, the lexicographic order of (i, j, k), and each printed triple
\* stands where a stable descending sort of the enumeration puts it
C15_TiesInEnumerationOrder ==
    pc = "ranked" =>
        LET items == TriplesItems(stars)
        IN  /\ \A p, q \in 1..Len(printed) :
                  (p < q /\ printed[p].area = printed[q].area)
                      => LexLess(printed[p].key, printed[q].key)
            /\ \A q \in 1..Len(items) :
                  StableRank(items, q) <= Len(printed)
                      => printed[StableRank(items, q)] = items[q]

\* C15 witness: two index triples tie with an area above 0 (the list has a
\* star twice) and are both printed, a triple of larger area was enumerated
\* behind them, and the enumeration was not in descending order
C15_Witness ==
    /\ pc = "ranked"
    /\ \E p, q \in 1..Len(printed) :
          /\ p < q
          /\ printed[p].area = printed[q].area
          /\ printed[p].area > 0
          /\ \E r \in 1..(p - 1) : LexLess(printed[q].key, printed[r].key)
    /\ \E p \in 1..(Len(TriplesItems(stars)) - 1) :
          TriplesItems(stars)[p].area < TriplesItems(stars)[p + 1].area

\* C16: the filter-and-sort step of get_suitable_stars leaves the loaded list
\* as it was, best_stars leaves the list passed to it and the other lists as
\* they were, and neither changes the observer configuration
C16_FilterAndRankingPure ==
    [][ /\ (pc = "loaded" /\ pc' = "filtered") =>
              (all_stars' = all_stars /\ config' = config)
        /\ pc' = "ranked" =>
              /\ stars' = (IF pc = "filtered" THEN suitable ELSE all_stars)
              /\ all_stars' = all_stars
              /\ suitable' = suitable
              /\ config' = config ]_vars

\* C16 witness: the filter and the ranking have run on a loaded list that
\* was not in descending order of altitude and had a star to drop
C16_Witness ==
    /\ pc = "ranked"
    /\ suitable # <<>>
    /\ Len(suitable) < Len(all_stars)
    /\ \E p \in 1..(Len(all_stars) - 1) : all_stars[p].Alt < all_stars[p + 1].Alt

\* C17: the triples best_stars scores for n stars are exactly the index
\* triples (i, j, k) with 0 <= i < j < k < n, each once: C(n, 3) of them, none
\* with an index twice, no two with the same three indices
C17_EveryCombinationOnce ==
    pc = "ranked" =>
        LET items == TriplesItems(stars)
            scored == {items[p].key : p \in 1..Len(items)}
        IN  /\ scored = {<<t[1] - 1, t[2] - 1, t[3] - 1>> : t \in IndexTriples(stars)}
            /\ \A t \in scored : 0 <= t[1] /\ t[1] < t[2] /\ t[2] < t[3] /\ t[3] < Len(stars)
            /\ Len(items) = Choose3(Len(stars))
            /\ Cardinality(scored) = Choose3(Len(stars))
            /\ \A t, u \in scored : {t[1], t[2], t[3]} = {u[1], u[2], u[3]} => t = u

\* C17 witness: a list of five or more stars in which a star occurs twice, so
\* that different index triples name the same stars
C17_Witness ==
    /\ pc = "ranked"
    /\ Len(stars) >= 5
    /\ \E p, q \in 1..Len(stars) : p < q /\ stars[p] = stars[q]

-----------------------------------------------------------------------------
(* Properties of set_time_and_place and of the menu loop *)

\* the locals of set_time_and_place that a pass of the loop assigns
PassLocals ==
    {"latitude", "longitude", "yi", "mi", "di", "time_zone", "ut_cor", "h", "m", "s"}

\* the locals assigned in the current pass when the prompt pr is reached
AssignedBefore(pr) ==
    IF pr = "latitude" THEN {}
    ELSE IF pr = "longitude" THEN {"latitude"}
    ELSE IF pr = "date" THEN {"latitude", "longitude"}
    ELSE IF pr = "time_zone" THEN {"latitude", "longitude", "yi", "mi", "di"}
    ELSE IF pr = "dst" THEN {"latitude", "longitude", "yi", "mi", "di", "time_zone"}
    ELSE PassLocals \ {"h", "m", "s"}

\* C18: set_time_and_place returns DEFAULT, unchanged, after the answer n or
\* no, and otherwise a context all of whose fields were assigned in the one
\* pass of the loop that passed every check: a pass given up restarts at the
\* latitude prompt with nothing kept, each later prompt is reached only with
\* the values of the current pass, and the returned date and time are within
\* their ranges, with Hours = entered hour (0..23) + UT correction
C18_ReturnedFromOnePass ==
    /\ ret.kind = "DEFAULT" =>
          /\ str_lower(ret.locals.change) \in {"n", "no"}
          /\ ret.ctx = DEFAULT(config)
          /\ ret.locals.fresh = {}
    /\ ret.kind = "TimePlace" =>
          LET loc == ret.locals
          IN  /\ str_lower(loc.change) \notin {"n", "no"}
              /\ loc.fresh = PassLocals
              /\ ret.ctx.Latitude = loc.latitude /\ ret.ctx.Longitude = loc.longitude
              /\ ret.ctx.Year = loc.yi /\ 2023 <= loc.yi /\ loc.yi <= 2073
              /\ ret.ctx.Month = loc.mi /\ 1 <= loc.mi /\ loc.mi <= 12
              /\ ret.ctx.Day = loc.di /\ 1 <= loc.di /\ loc.di <= 31
              /\ ret.ctx.Minutes = loc.m /\ 0 <= loc.m /\ loc.m <= 59
              /\ ret.ctx.Seconds = loc.s /\ 0 <= loc.s /\ loc.s <= 59
              /\ 0 <= loc.h /\ loc.h <= 23
              /\ 0 <= loc.time_zone /\ loc.time_zone <= 23
              /\ loc.ut_cor \in {-loc.time_zone, -(loc.time_zone + 1)}
              /\ ret.ctx.Hours = loc.h + loc.ut_cor
    /\ pc \in {"latitude", "longitude", "date", "time_zone", "dst", "time"} =>
          args.fresh = AssignedBefore(pc)

\* C18 witness: a new context has been returned by a call in which a pass had
\* been given up before
C18_Witness ==
    /\ ret.kind = "TimePlace"
    /\ ret.locals.rejected
    /\ ret.ctx # DEFAULT(config)
    /\ pc = "menu"

\* print_menu returns only a choice in 1..MainEntries (choice is 0 before the
\* first call), and the else branch of main is never taken
MenuChoiceInRange ==
    /\ choice \in 0..MainEntries
    /\ pc \in {"align", "settings", "exit", "exited", "crashed"} => choice >= 1
    /\ pc # "else"

\* C19: print_menu returns only a choice in 1..MainEntries, the else branch of
\* main is unreachable, and the program leaves the main loop only through
\* choice 5
C19_LeavesOnlyByExit ==
    /\ MenuChoiceInRange
    /\ pc \in {"exited", "crashed"} => (pc = "exited" /\ choice = 5)

====
